---- MODULE Spec2Model ----
(***************************************************************************)
(* Model of the client-side theme preference resolver (lib/theme):         *)
(* getStoredTheme, detectPreferredTheme, applyTheme, setTheme, initTheme,  *)
(* over a localStorage entry, the prefers-color-scheme signal and the      *)
(* 'dark' class of document.documentElement and document.body.            *)
(* The ThemeToggle component and the verify-email, projects and           *)
(* password-reset pages are modelled beside it, each under its own         *)
(* specification.                                                          *)
(***************************************************************************)
EXTENDS Integers, Sequences, FiniteSets, TLC

VARIABLES
    hasWindow,      \* typeof window !== 'undefined'
    hasDocument,    \* typeof document !== 'undefined'
    storageStatus,  \* "ok" | "quota" (setItem throws) | "denied" (every access throws)
    localStorage,   \* function from the keys present to their string values
    prefersDark,    \* window.matchMedia('(prefers-color-scheme: dark)').matches
    htmlDark,       \* document.documentElement.classList.contains('dark')
    bodyDark,       \* document.body.classList.contains('dark')
    pc,             \* position of the single UI thread inside the running call
    call,           \* the running call, or the last finished one, with its locals
    initRan,        \* an initTheme call has returned in this page lifecycle
    lastSet,        \* argument of the last setTheme call whose write succeeded
    reloadedSinceSet, \* the page was reloaded after that setTheme call
    failedWrite     \* a storage write has failed in this page lifecycle

\* The ThemeToggle components of the page (components/ThemeToggle).
VARIABLES
    mounted,        \* which ThemeToggle instances are mounted
    mode,           \* each instance's useState value
    effectDone,     \* each instance's mount effect has run (returned or thrown)
    caller,         \* the instance whose effect or handler runs the call, or 0
    initCalls,      \* initTheme invocations in this page lifecycle
    faulted         \* an effect or handler was left by an exception in this lifecycle

themeVars == <<hasWindow, hasDocument, storageStatus, localStorage, prefersDark,
               htmlDark, bodyDark, pc, call, initRan, lastSet, reloadedSinceSet,
               failedWrite>>

toggleVars == <<mounted, mode, effectDone, caller, initCalls, faulted>>

\* The verify-email page (routes/auth/verify-email).
VARIABLES
    vPage,          \* "unmounted" | "mounted" | "login" (navigated) | "away"
    urlToken,       \* searchParams.get('token') at the last render
    verifying,      \* useState(true)
    success,        \* useState(false)
    error,          \* useState<string | null>(null)
    runs,           \* the runs of the verification effect, in order
    nRuns,          \* how many runs have started
    autoRedirected  \* the timer of line 47 has called navigate

verifyVars == <<vPage, urlToken, verifying, success, error, runs, nRuns,
                autoRedirected>>

\* The projects page (routes/projects).
VARIABLES
    pPage,          \* "closed" | "loaded" | "login" (beforeLoad redirect) | "checkout" | "left"
    data,           \* useProjects().data, NULL before the route has loaded it
    view,           \* what the last render of the plan card showed
    showCreate,     \* useState(false): the New Project dialog is open
    formState,      \* useState({ name: '', description: '' })
    creates,        \* the create-project mutations issued, in order
    nCreates,       \* how many were issued
    topUpCall,      \* the last handleTopUpClick invocation with its locals
    topUpPending,   \* topUp.isPending
    lastToast       \* the last toast shown, NULL if none

projectsVars == <<pPage, data, view, showCreate, formState, creates, nCreates,
                  topUpCall, topUpPending, lastToast>>

\* The password-reset page (routes/auth/reset).
VARIABLES
    rPage,          \* "unmounted" | "mounted" | "login"
    rSearch,        \* the token parameter of window.location.search, NULL if absent
    rToken,         \* useQueryToken() at the last render
    rForm,          \* "request" | "confirm": the form the last render showed
    resetCalls,     \* the submissions that reached onRequest / onConfirm, in order
    nResetCalls,    \* how many did
    rNavigatedBy    \* what last moved the page to /auth/login: NULL, "link" or a call

resetVars == <<rPage, rSearch, rToken, rForm, resetCalls, nResetCalls,
               rNavigatedBy>>

\* Variables of the pages, as opposed to the theme library and its toggle.
pageVars == <<verifyVars, projectsVars, resetVars>>

vars == <<themeVars, toggleVars, pageVars>>

----------------------------------------------------------------------------
(* Values *)

ThemeMode == {"light", "dark"}

THEME_STORAGE_KEY == "vectorlab-theme"

\* JavaScript null / undefined; no stored string equals it.
NULL == "<null>"

\* ThemeToggle instances the page may hold at once.
MaxToggles == 2

Toggles == 1..MaxToggles

\* Mount effects (initTheme invocations) followed within one page lifecycle.
MaxInitCalls == 3

\* Runs of the verify-email effect followed on one mounted page.
MaxVerifyRuns == 2

\* Values of searchParams.get('token'): absent, empty, two tokens.
Tokens == {NULL, "", "t1", "t2"}

\* How a verification request ends: fetch resolves with an ok status and a
\* JSON body; with a failure status and a detail; with a failure status and no
\* detail; fetch rejects; response.json() throws.
Outcomes == {"ok", "notok_detail", "notok_nodetail", "reject", "badjson"}

NoRun == [state |-> "unused", token |-> NULL, sent |-> FALSE, outcome |-> NULL,
          scheduled |-> FALSE, fired |-> FALSE]

\* Strings the store may hold under the key when the page starts.
StoredStrings == {"light", "dark", "purple", "Dark", ""}

StorageStatuses == {"ok", "quota", "denied"}

\* Largest usage count (total_vectors, project_count) the server reports.
MaxCount == 2

\* Largest magnitude of a limit (vector_limit, project_limit) the server reports.
MaxLimit == 3

Counts == 0..MaxCount

\* number | null: null is the empty sequence, a number n is <<n>>.
NullLimit == <<>>

Limits == {NullLimit} \cup {<<n>> : n \in -MaxLimit..MaxLimit}

UsageValues == [total_vectors : Counts, vector_limit : Limits,
                project_count : Counts, project_limit : Limits]

\* The fields of useProjects().data the page reads; the plan is present
\* whenever the data is.
DataValues(U) == [needs_subscription : BOOLEAN, allow_topups : BOOLEAN, usage : U]

NoData == [needs_subscription |-> FALSE, allow_topups |-> FALSE,
           usage |-> [total_vectors |-> 0, vector_limit |-> NullLimit,
                      project_count |-> 0, project_limit |-> NullLimit]]

NoView == [card |-> FALSE, vectorValue |-> <<"", "">>, vectorPercent |-> 0,
           projectPercent |-> 0, vectorBar |-> FALSE, projectBar |-> FALSE]

Names == {"", "docs"}

Descriptions == {"", "notes"}

EmptyForm == [name |-> "", description |-> ""]

\* Create-project mutations followed on one page.
MaxCreates == 2

CreateOutcomes == {"ok", "error_message", "error_nomessage"}

NoCreate == [state |-> "unused", payload |-> EmptyForm, outcome |-> NULL,
             clipboard |-> NULL]

\* Longest text typed into the top-up prompt, the overlong digit string apart.
MaxPromptLen == 3

PromptChars == {" ", "+", "-", "0", "1", "9", ".", "x"}

Digits == {"0", "1", "2", "3", "4", "5", "6", "7", "8", "9"}

\* Number.MAX_VALUE, about 1.797e308, has this many decimal digits.
MaxDoubleDigits == 309

\* A digit string whose value is beyond the range of a double.
HugeDigits == [i \in 1..(MaxDoubleDigits + 1) |-> "9"]

PromptTexts ==
    UNION {[1..n -> PromptChars] : n \in 0..MaxPromptLen} \cup {HugeDigits}

\* What window.prompt returns: null when cancelled, else the text.
PromptResults ==
    {[null |-> TRUE, text |-> <<>>]} \cup {[null |-> FALSE, text |-> t] : t \in PromptTexts}

\* A JavaScript number as parseInt can return it: an integer computed exactly
\* ("int"), a finite integer too long to compute here ("big"), an infinity
\* ("inf") or NaN ("nan"); sign is 1 or -1.
Num(kind, sign, val) == [kind |-> kind, sign |-> sign, val |-> val]

NaN == Num("nan", 1, 0)

NoTopUp == [ran |-> FALSE, value |-> [null |-> TRUE, text |-> <<>>],
            quantity |-> NaN, toasted |-> FALSE, mutated |-> FALSE]

\* Submissions followed on the reset page.
MaxResetCalls == 2

Emails == {"", "a@b.c"}

Passwords == {"", "short", "longenough", "longenough2"}

NoResetCall == [state |-> "unused", api |-> NULL, token |-> NULL, live |-> FALSE,
                outcome |-> NULL, toast |-> NULL, navigated |-> FALSE]

----------------------------------------------------------------------------
(* Storage API as the code uses it *)

getItem(ls, key) == IF key \in DOMAIN ls THEN ls[key] ELSE NULL

setItem(ls, key, value) ==
    [k \in (DOMAIN ls) \cup {key} |-> IF k = key THEN value ELSE ls[k]]

\* window.localStorage.getItem throws (SecurityError: storage disabled).
getItemThrows(status) == status = "denied"

\* window.localStorage.setItem throws (quota exceeded, storage disabled).
setItemThrows(status) == status \in {"quota", "denied"}

----------------------------------------------------------------------------
(* The pure parts of lib/theme *)

getStoredTheme_NoValidation(win, ls) ==
    IF ~win THEN NULL ELSE getItem(ls, THEME_STORAGE_KEY)

getStoredTheme(win, ls) ==
    IF ~win THEN NULL
    ELSE LET value == getItem(ls, THEME_STORAGE_KEY)
         IN  IF value = "light" \/ value = "dark" THEN value ELSE NULL

\* getStoredTheme has no try/catch: a throwing getItem leaves it by exception.
getStoredThemeThrows(win, status) == win /\ getItemThrows(status)

detectPreferredTheme_AlwaysLight(win, matches) == "light"

detectPreferredTheme(win, matches) ==
    IF win /\ matches THEN "dark" ELSE "light"

\* classList.toggle('dark') without the force argument
classListToggle_NoForce(present, force) == ~present

\* classList.toggle('dark', force): the class is present afterwards iff force.
classListToggle(present, force) == force

applyTheme_HtmlOnly(doc, theme, markers) ==
    IF ~doc THEN markers
    ELSE <<classListToggle(markers[1], theme = "dark"), markers[2]>>

\* markers = <<documentElement has 'dark', body has 'dark'>>
applyTheme(doc, theme, markers) ==
    IF ~doc THEN markers
    ELSE <<classListToggle(markers[1], theme = "dark"),
           classListToggle(markers[2], theme = "dark")>>

\* initTheme line 35: stored ?? detectPreferredTheme()
resolveTheme_IgnoreStored(stored, win, matches) == detectPreferredTheme(win, matches)

resolveTheme(stored, win, matches) ==
    IF stored # NULL THEN stored ELSE detectPreferredTheme(win, matches)

\* initTheme line 37: if (!stored)
shouldPersist_Always(stored) == TRUE

shouldPersist(stored) == stored = NULL \/ stored = ""

\* initTheme lines 38-42: the write is inside try/catch; with window absent the
\* reference to window throws and is caught as well.
initWriteFails(win, status) == ~win \/ setItemThrows(status)

\* setTheme lines 29-30, in program order.
setThemeBody_WriteFirst == <<"setItem", "applyTheme">>

setThemeBody == <<"applyTheme", "setItem">>

----------------------------------------------------------------------------
(* Calls *)

Idle == pc \in {"idle", "done"}

NoCall ==
    [op |-> NULL, arg |-> NULL, stored |-> NULL, theme |-> NULL, ret |-> NULL,
     threw |-> FALSE, wrote |-> FALSE, writeFailed |-> FALSE,
     prevOp |-> NULL, prevArg |-> NULL,
     storeBefore |-> localStorage, prefersBefore |-> prefersDark,
     statusBefore |-> storageStatus, markersBefore |-> <<htmlDark, bodyDark>>]

\* prevOp, prevArg: the call that finished immediately before this one.
NewCall(op, arg) ==
    [NoCall EXCEPT !.op = op, !.arg = arg,
                   !.prevOp = IF pc = "done" THEN call.op ELSE NULL,
                   !.prevArg = IF pc = "done" THEN call.arg ELSE NULL]

Markers == <<htmlDark, bodyDark>>

TypeOK ==
    /\ hasWindow \in BOOLEAN /\ hasDocument \in BOOLEAN
    /\ storageStatus \in StorageStatuses
    /\ DOMAIN localStorage \subseteq {THEME_STORAGE_KEY}
    /\ \A k \in DOMAIN localStorage : localStorage[k] \in StoredStrings
    /\ prefersDark \in BOOLEAN /\ htmlDark \in BOOLEAN /\ bodyDark \in BOOLEAN
    /\ pc \in {"idle", "done", "initTheme_34", "initTheme_35", "initTheme_37",
               "setTheme_28", "setTheme_s2"}
    /\ initRan \in BOOLEAN
    /\ lastSet \in ThemeMode \cup {NULL}
    /\ reloadedSinceSet \in BOOLEAN
    /\ failedWrite \in BOOLEAN
    /\ mounted \in [Toggles -> BOOLEAN]
    /\ mode \in [Toggles -> ThemeMode]
    /\ effectDone \in [Toggles -> BOOLEAN]
    /\ caller \in Toggles \cup {0}
    /\ initCalls \in 0..MaxInitCalls
    /\ faulted \in BOOLEAN
    /\ vPage \in {"unmounted", "mounted", "login", "away"}
    /\ urlToken \in Tokens
    /\ verifying \in BOOLEAN /\ success \in BOOLEAN
    /\ nRuns \in 0..MaxVerifyRuns
    /\ autoRedirected \in BOOLEAN
    /\ pPage \in {"closed", "loaded", "login", "checkout", "left"}
    /\ showCreate \in BOOLEAN
    /\ formState \in [name : Names, description : Descriptions]
    /\ nCreates \in 0..MaxCreates
    /\ topUpPending \in BOOLEAN
    /\ view.vectorBar \in BOOLEAN /\ view.projectBar \in BOOLEAN
    /\ rPage \in {"unmounted", "mounted", "login"}
    /\ rSearch \in Tokens /\ rToken \in Tokens
    /\ rForm \in {"request", "confirm"}
    /\ nResetCalls \in 0..MaxResetCalls

\* No ThemeToggle is mounted when the page starts; useState('light').
ToggleInit ==
    /\ mounted = [i \in Toggles |-> FALSE]
    /\ mode = [i \in Toggles |-> "light"]
    /\ effectDone = [i \in Toggles |-> FALSE]
    /\ caller = 0
    /\ initCalls = 0
    /\ faulted = FALSE

\* The verify-email page is not open; useState initial values of lines 12-14.
VerifyInit ==
    /\ vPage = "unmounted"
    /\ urlToken = NULL
    /\ verifying = TRUE
    /\ success = FALSE
    /\ error = NULL
    /\ runs = [r \in 1..MaxVerifyRuns |-> NoRun]
    /\ nRuns = 0
    /\ autoRedirected = FALSE

\* The projects page is not open; useState initial values of lines 53-57.
ProjectsInit ==
    /\ pPage = "closed"
    /\ data = NoData
    /\ view = NoView
    /\ showCreate = FALSE
    /\ formState = EmptyForm
    /\ creates = [r \in 1..MaxCreates |-> NoCreate]
    /\ nCreates = 0
    /\ topUpCall = NoTopUp
    /\ topUpPending = FALSE
    /\ lastToast = NULL

\* The reset page is not open.
ResetInit ==
    /\ rPage = "unmounted"
    /\ rSearch = NULL
    /\ rToken = NULL
    /\ rForm = "request"
    /\ resetCalls = [r \in 1..MaxResetCalls |-> NoResetCall]
    /\ nResetCalls = 0
    /\ rNavigatedBy = NULL

Init ==
    /\ hasWindow \in BOOLEAN
    /\ hasDocument \in BOOLEAN
    /\ storageStatus \in StorageStatuses
    /\ localStorage \in
          IF hasWindow
          THEN {<<>>} \cup {[k \in {THEME_STORAGE_KEY} |-> s] : s \in StoredStrings}
          ELSE {<<>>}
    /\ prefersDark \in (IF hasWindow THEN BOOLEAN ELSE {FALSE})
    /\ htmlDark \in (IF hasDocument THEN BOOLEAN ELSE {FALSE})
    /\ bodyDark \in (IF hasDocument THEN BOOLEAN ELSE {FALSE})
    /\ pc = "idle"
    /\ call = NoCall
    /\ initRan = FALSE
    /\ lastSet = NULL
    /\ reloadedSinceSet = FALSE
    /\ failedWrite = FALSE
    /\ ToggleInit
    /\ VerifyInit
    /\ ProjectsInit
    /\ ResetInit

Env == <<hasWindow, hasDocument, storageStatus, prefersDark>>
Hist == <<initRan, lastSet, reloadedSinceSet, failedWrite>>

(* initTheme *)

CallInitTheme ==
    /\ Idle
    /\ pc' = "initTheme_34"
    /\ call' = NewCall("initTheme", NULL)
    /\ UNCHANGED <<Env, localStorage, htmlDark, bodyDark, Hist>>

\* line 34: const stored = getStoredTheme()
InitThemeGetStored ==
    /\ pc = "initTheme_34"
    /\ IF getStoredThemeThrows(hasWindow, storageStatus)
       THEN /\ pc' = "done"
            /\ call' = [call EXCEPT !.threw = TRUE]
       ELSE /\ pc' = "initTheme_35"
            /\ call' = [call EXCEPT !.stored = getStoredTheme(hasWindow, localStorage)]
    /\ UNCHANGED <<Env, localStorage, htmlDark, bodyDark, Hist>>

\* lines 35-36: const theme = stored ?? detectPreferredTheme(); applyTheme(theme)
InitThemeApply ==
    /\ pc = "initTheme_35"
    /\ LET theme == resolveTheme(call.stored, hasWindow, prefersDark)
           m == applyTheme(hasDocument, theme, Markers)
       IN  /\ call' = [call EXCEPT !.theme = theme]
           /\ htmlDark' = m[1]
           /\ bodyDark' = m[2]
    /\ pc' = "initTheme_37"
    /\ UNCHANGED <<Env, localStorage, Hist>>

\* initTheme with the try/catch around the write removed
InitThemePersist_NoCatch ==
    /\ pc = "initTheme_37"
    /\ IF shouldPersist(call.stored)
       THEN IF initWriteFails(hasWindow, storageStatus)
            THEN /\ localStorage' = localStorage
                 /\ call' = [call EXCEPT !.writeFailed = TRUE, !.threw = TRUE]
                 /\ failedWrite' = TRUE
                 /\ initRan' = initRan
            ELSE /\ localStorage' = setItem(localStorage, THEME_STORAGE_KEY, call.theme)
                 /\ call' = [call EXCEPT !.wrote = TRUE, !.ret = call.theme]
                 /\ failedWrite' = failedWrite
                 /\ initRan' = TRUE
       ELSE /\ localStorage' = localStorage
            /\ call' = [call EXCEPT !.ret = call.theme]
            /\ failedWrite' = failedWrite
            /\ initRan' = TRUE
    /\ pc' = "done"
    /\ UNCHANGED <<Env, htmlDark, bodyDark, lastSet, reloadedSinceSet>>

\* lines 37-44: if (!stored) { try { setItem } catch {} }; return theme
InitThemePersist ==
    /\ pc = "initTheme_37"
    /\ IF shouldPersist(call.stored)
       THEN IF initWriteFails(hasWindow, storageStatus)
            THEN /\ localStorage' = localStorage
                 /\ call' = [call EXCEPT !.writeFailed = TRUE, !.ret = call.theme]
                 /\ failedWrite' = TRUE
            ELSE /\ localStorage' = setItem(localStorage, THEME_STORAGE_KEY, call.theme)
                 /\ call' = [call EXCEPT !.wrote = TRUE, !.ret = call.theme]
                 /\ failedWrite' = failedWrite
       ELSE /\ localStorage' = localStorage
            /\ call' = [call EXCEPT !.ret = call.theme]
            /\ failedWrite' = failedWrite
    /\ pc' = "done"
    /\ initRan' = TRUE
    /\ UNCHANGED <<Env, htmlDark, bodyDark, lastSet, reloadedSinceSet>>

(* setTheme *)

CallSetTheme ==
    /\ Idle
    /\ \E theme \in ThemeMode : call' = NewCall("setTheme", theme)
    /\ pc' = "setTheme_28"
    /\ UNCHANGED <<Env, localStorage, htmlDark, bodyDark, Hist>>

\* One statement of setTheme's body; next is the position after it.
SetThemeStmt(stmt, next) ==
    IF stmt = "applyTheme"
    THEN LET m == applyTheme(hasDocument, call.arg, Markers)
         IN  /\ htmlDark' = m[1]
             /\ bodyDark' = m[2]
             /\ pc' = next
             /\ call' = call
             /\ UNCHANGED <<localStorage, lastSet, reloadedSinceSet, failedWrite>>
    ELSE IF setItemThrows(storageStatus)
         THEN /\ pc' = "done"
              /\ call' = [call EXCEPT !.threw = TRUE, !.writeFailed = TRUE]
              /\ failedWrite' = TRUE
              /\ UNCHANGED <<localStorage, htmlDark, bodyDark, lastSet, reloadedSinceSet>>
         ELSE /\ localStorage' = setItem(localStorage, THEME_STORAGE_KEY, call.arg)
              /\ pc' = next
              /\ call' = [call EXCEPT !.wrote = TRUE]
              /\ lastSet' = call.arg
              /\ reloadedSinceSet' = FALSE
              /\ UNCHANGED <<htmlDark, bodyDark, failedWrite>>

\* setTheme without the window guard of line 28
SetThemeFirst_NoWindowCheck ==
    /\ pc = "setTheme_28"
    /\ SetThemeStmt(setThemeBody[1], "setTheme_s2")
    /\ UNCHANGED <<Env, initRan>>

\* line 28: if (typeof window === 'undefined') return; then the first statement
SetThemeFirst ==
    /\ pc = "setTheme_28"
    /\ IF ~hasWindow
       THEN /\ pc' = "done"
            /\ UNCHANGED <<call, localStorage, htmlDark, bodyDark, lastSet,
                           reloadedSinceSet, failedWrite>>
       ELSE SetThemeStmt(setThemeBody[1], "setTheme_s2")
    /\ UNCHANGED <<Env, initRan>>

\* the second statement, then return
SetThemeSecond ==
    /\ pc = "setTheme_s2"
    /\ SetThemeStmt(setThemeBody[2], "done")
    /\ UNCHANGED <<Env, initRan>>

(* direct calls of the read-only exports *)

CallGetStoredTheme ==
    /\ Idle
    /\ pc' = "done"
    /\ call' = IF getStoredThemeThrows(hasWindow, storageStatus)
               THEN [NewCall("getStoredTheme", NULL) EXCEPT !.threw = TRUE]
               ELSE [NewCall("getStoredTheme", NULL) EXCEPT
                        !.ret = getStoredTheme(hasWindow, localStorage)]
    /\ UNCHANGED <<Env, localStorage, htmlDark, bodyDark, Hist>>

CallDetectPreferredTheme ==
    /\ Idle
    /\ pc' = "done"
    /\ call' = [NewCall("detectPreferredTheme", NULL) EXCEPT
                   !.ret = detectPreferredTheme(hasWindow, prefersDark)]
    /\ UNCHANGED <<Env, localStorage, htmlDark, bodyDark, Hist>>

\* applyTheme that also persists its argument
CallApplyTheme_Persisting ==
    /\ Idle
    /\ \E theme \in ThemeMode :
          LET m == applyTheme(hasDocument, theme, Markers)
          IN  /\ htmlDark' = m[1]
              /\ bodyDark' = m[2]
              /\ call' = NewCall("applyTheme", theme)
              /\ localStorage' = IF hasWindow
                                 THEN setItem(localStorage, THEME_STORAGE_KEY, theme)
                                 ELSE localStorage
    /\ pc' = "done"
    /\ UNCHANGED <<Env, Hist>>

\* lines 21-25: a direct call of the exported applyTheme
CallApplyTheme ==
    /\ Idle
    /\ \E theme \in ThemeMode :
          LET m == applyTheme(hasDocument, theme, Markers)
          IN  /\ htmlDark' = m[1]
              /\ bodyDark' = m[2]
              /\ call' = NewCall("applyTheme", theme)
    /\ pc' = "done"
    /\ UNCHANGED <<Env, localStorage, Hist>>

(* the host environment *)

\* The page is closed or reloaded, possibly in the middle of a call: the store
\* survives, the document is rebuilt, the locals are gone.
Reload ==
    /\ pc' = "idle"
    /\ htmlDark' \in (IF hasDocument THEN BOOLEAN ELSE {FALSE})
    /\ bodyDark' \in (IF hasDocument THEN BOOLEAN ELSE {FALSE})
    /\ call' = [NoCall EXCEPT !.markersBefore = <<htmlDark', bodyDark'>>]
    /\ initRan' = FALSE
    /\ reloadedSinceSet' = (lastSet # NULL)
    /\ failedWrite' = FALSE
    /\ UNCHANGED <<Env, localStorage, lastSet>>

\* The user or the OS switches the colour scheme between two events.
SystemPreferenceChange ==
    /\ Idle
    /\ hasWindow
    /\ prefersDark' = ~prefersDark
    /\ UNCHANGED <<hasWindow, hasDocument, storageStatus, localStorage,
                   htmlDark, bodyDark, pc, call, Hist>>

\* Storage fills up, is freed, or is disabled or enabled between two events.
StorageStatusChange ==
    /\ Idle
    /\ hasWindow
    /\ storageStatus' \in StorageStatuses \ {storageStatus}
    /\ UNCHANGED <<hasWindow, hasDocument, prefersDark, localStorage,
                   htmlDark, bodyDark, pc, call, Hist>>

\* A step of the theme library made by a caller other than a ThemeToggle.
Lib(A) == A /\ UNCHANGED <<toggleVars, pageVars>>

Next ==
    \/ Lib(CallInitTheme)
    \/ Lib(InitThemeGetStored)
    \/ Lib(InitThemeApply)
    \/ Lib(InitThemePersist)
    \/ Lib(CallSetTheme)
    \/ Lib(SetThemeFirst)
    \/ Lib(SetThemeSecond)
    \/ Lib(CallGetStoredTheme)
    \/ Lib(CallDetectPreferredTheme)
    \/ Lib(Reload)
    \/ Lib(SystemPreferenceChange)
    \/ Lib(StorageStatusChange)

Spec == Init /\ [][Next]_vars

----------------------------------------------------------------------------
(* ThemeToggle: the page as its components drive the library *)

\* handleToggle line 15
nextMode(m) == IF m = "light" THEN "dark" ELSE "light"

\* lines 7-10: the component mounts with useState('light') and its mount
\* effect starts initTheme.
ToggleMount ==
    /\ UNCHANGED pageVars
    /\ initCalls < MaxInitCalls
    /\ \E i \in Toggles :
          /\ ~mounted[i]
          /\ mounted' = [mounted EXCEPT ![i] = TRUE]
          /\ mode' = [mode EXCEPT ![i] = "light"]
          /\ effectDone' = [effectDone EXCEPT ![i] = FALSE]
          /\ caller' = i
    /\ initCalls' = initCalls + 1
    /\ faulted' = faulted
    /\ CallInitTheme

\* line 10, inside initTheme: getStoredTheme; an exception ends the effect
\* before setMode.
ToggleInitGetStored ==
    /\ UNCHANGED pageVars
    /\ caller \in Toggles
    /\ InitThemeGetStored
    /\ effectDone' = IF call'.threw THEN [effectDone EXCEPT ![caller] = TRUE]
                                    ELSE effectDone
    /\ faulted' = (faulted \/ call'.threw)
    /\ UNCHANGED <<mounted, mode, caller, initCalls>>

ToggleInitApply ==
    /\ UNCHANGED pageVars
    /\ caller \in Toggles
    /\ InitThemeApply
    /\ UNCHANGED toggleVars

\* lines 10-11: initTheme returns and setMode(initial) takes effect.
ToggleInitPersist ==
    /\ UNCHANGED pageVars
    /\ caller \in Toggles
    /\ InitThemePersist
    /\ mode' = IF call'.threw THEN mode ELSE [mode EXCEPT ![caller] = call'.ret]
    /\ effectDone' = [effectDone EXCEPT ![caller] = TRUE]
    /\ faulted' = (faulted \/ call'.threw)
    /\ UNCHANGED <<mounted, caller, initCalls>>

\* lines 14-17: a click; setMode(nextMode) and the start of setTheme(nextMode).
\* Pending effects are flushed before a click is handled.
ToggleClick ==
    /\ UNCHANGED pageVars
    /\ \E i \in Toggles :
          /\ mounted[i] /\ effectDone[i]
          /\ caller' = i
          /\ mode' = [mode EXCEPT ![i] = nextMode(mode[i])]
          /\ CallSetTheme
          /\ call'.arg = nextMode(mode[i])
    /\ UNCHANGED <<mounted, effectDone, initCalls, faulted>>

ToggleSetFirst ==
    /\ UNCHANGED pageVars
    /\ caller \in Toggles
    /\ SetThemeFirst
    /\ UNCHANGED toggleVars

\* line 17: setTheme's write; an exception leaves handleToggle, the state
\* update of line 16 stands.
ToggleSetSecond ==
    /\ UNCHANGED pageVars
    /\ caller \in Toggles
    /\ SetThemeSecond
    /\ faulted' = (faulted \/ call'.threw)
    /\ UNCHANGED <<mounted, mode, effectDone, caller, initCalls>>

\* The component leaves the tree (route change, conditional render).
ToggleUnmount ==
    /\ UNCHANGED pageVars
    /\ Idle
    /\ \E i \in Toggles :
          /\ mounted[i] /\ effectDone[i]
          /\ mounted' = [mounted EXCEPT ![i] = FALSE]
          /\ effectDone' = [effectDone EXCEPT ![i] = FALSE]
    /\ UNCHANGED <<themeVars, mode, caller, initCalls, faulted>>

\* A reload unmounts everything.
ToggleReload ==
    /\ UNCHANGED pageVars
    /\ Reload
    /\ mounted' = [i \in Toggles |-> FALSE]
    /\ mode' = [i \in Toggles |-> "light"]
    /\ effectDone' = [i \in Toggles |-> FALSE]
    /\ caller' = 0
    /\ initCalls' = 0
    /\ faulted' = FALSE

NextToggle ==
    \/ ToggleMount
    \/ ToggleInitGetStored
    \/ ToggleInitApply
    \/ ToggleInitPersist
    \/ ToggleClick
    \/ ToggleSetFirst
    \/ ToggleSetSecond
    \/ ToggleUnmount
    \/ ToggleReload
    \/ Lib(SystemPreferenceChange)
    \/ Lib(StorageStatusChange)

SpecToggle == Init /\ [][NextToggle]_vars

----------------------------------------------------------------------------
(* The verify-email page *)

\* line 22: if (!token)
tokenMissing(t) == t = NULL \/ t = ""

\* lines 29-41 without the response.ok check
responseSucceeds_IgnoreStatus(o) == o \in {"ok", "notok_detail", "notok_nodetail"}

\* lines 29-41: fetch resolved, response.json() resolved, response.ok
responseSucceeds(o) == o = "ok"

\* lines 40 and 51: data.detail || 'Verification failed', or err.message
errorMessage(o) ==
    CASE o = "notok_detail"   -> "Invalid or expired token"
      [] o = "notok_nodetail" -> "Verification failed"
      [] o = "reject"         -> "Failed to fetch"
      [] OTHER                -> "Unexpected end of JSON input"

\* lines 20-35, 58: one run of the effect with token t, up to the first await
VerifyEffect(t) ==
    /\ nRuns < MaxVerifyRuns
    /\ nRuns' = nRuns + 1
    /\ IF tokenMissing(t)
       THEN /\ error' = "No verification token provided"
            /\ verifying' = FALSE
            /\ runs' = [runs EXCEPT ![nRuns + 1] =
                           [NoRun EXCEPT !.state = "done", !.token = t]]
       ELSE /\ runs' = [runs EXCEPT ![nRuns + 1] =
                           [NoRun EXCEPT !.state = "pending", !.token = t,
                                         !.sent = TRUE]]
            /\ UNCHANGED <<error, verifying>>
    /\ UNCHANGED <<success, autoRedirected>>

\* lines 10-18, 59: the page mounts, reads the token and runs the effect
VerifyMount ==
    /\ vPage = "unmounted"
    /\ vPage' = "mounted"
    /\ \E t \in Tokens : urlToken' = t /\ VerifyEffect(t)
    /\ UNCHANGED <<themeVars, toggleVars, projectsVars, resetVars>>

\* lines 17-18, 59: the search string changes under the mounted page; the
\* token dependency differs and the effect runs again
VerifyUrlChange ==
    /\ vPage = "mounted"
    /\ vPage' = vPage
    /\ \E t \in Tokens \ {urlToken} : urlToken' = t /\ VerifyEffect(t)
    /\ UNCHANGED <<themeVars, toggleVars, projectsVars, resetVars>>

\* lines 37-55: a pending request settles and its run continues to the end;
\* state updates of a page no longer mounted are dropped, the timer is not
VerifyResponse ==
    /\ \E r \in 1..MaxVerifyRuns, o \in Outcomes :
          /\ runs[r].state = "pending"
          /\ runs' = [runs EXCEPT ![r] =
                         [@ EXCEPT !.state = "done", !.outcome = o,
                                   !.scheduled = responseSucceeds(o)]]
          /\ IF vPage = "mounted"
             THEN /\ success' = (success \/ responseSucceeds(o))
                  /\ error' = IF responseSucceeds(o) THEN error ELSE errorMessage(o)
                  /\ verifying' = FALSE
             ELSE UNCHANGED <<success, error, verifying>>
    /\ UNCHANGED <<vPage, urlToken, nRuns, autoRedirected>>
    /\ UNCHANGED <<themeVars, toggleVars, projectsVars, resetVars>>

\* lines 47-49: two seconds later the timer navigates to /auth/login
VerifyTimerFire ==
    /\ \E r \in 1..MaxVerifyRuns :
          /\ runs[r].scheduled /\ ~runs[r].fired
          /\ runs' = [runs EXCEPT ![r] = [@ EXCEPT !.fired = TRUE]]
    /\ vPage' = "login"
    /\ autoRedirected' = TRUE
    /\ UNCHANGED <<urlToken, verifying, success, error, nRuns>>
    /\ UNCHANGED <<themeVars, toggleVars, projectsVars, resetVars>>

\* lines 98, 109-114: the GO TO LOGIN button of the error panel
VerifyGoToLogin ==
    /\ vPage = "mounted"
    /\ error # NULL /\ error # ""
    /\ vPage' = "login"
    /\ UNCHANGED <<urlToken, verifying, success, error, runs, nRuns, autoRedirected>>
    /\ UNCHANGED <<themeVars, toggleVars, projectsVars, resetVars>>

\* lines 122-127: the link to /auth/register
VerifyLeave ==
    /\ vPage = "mounted"
    /\ vPage' = "away"
    /\ UNCHANGED <<urlToken, verifying, success, error, runs, nRuns, autoRedirected>>
    /\ UNCHANGED <<themeVars, toggleVars, projectsVars, resetVars>>

NextVerify ==
    \/ VerifyMount
    \/ VerifyUrlChange
    \/ VerifyResponse
    \/ VerifyTimerFire
    \/ VerifyGoToLogin
    \/ VerifyLeave

\* The page runs in a browser (line 17 reads window.location); the theme is
\* left alone.
InitVerify ==
    /\ Init
    /\ hasWindow /\ hasDocument
    /\ storageStatus = "ok" /\ localStorage = <<>>
    /\ ~prefersDark /\ ~htmlDark /\ ~bodyDark

SpecVerify == InitVerify /\ [][NextVerify]_vars

----------------------------------------------------------------------------
(* The projects page: usage figures *)

\* part_003 lines 27-29: new Intl.NumberFormat().format(value); an integer
\* below a thousand has no grouping and prints as its decimal numeral
formatNumber(value) == ToString(value)

\* Truthiness of a number | null: null and 0 are falsy, every other number,
\* a negative one included, is truthy
truthy(limit) == limit # NullLimit /\ limit[1] # 0

\* part_003 lines 31-36: the two parts of the text around " / "
formatVectorLimit(current, limit) ==
    IF ~truthy(limit) \/ limit[1] < 0
    THEN <<formatNumber(current), "Unlimited">>
    ELSE <<formatNumber(current), formatNumber(limit[1])>>

\* floor(n / d) for d # 0
FloorDiv(n, d) == IF d > 0 THEN n \div d ELSE (-n) \div (-d)

\* Math.round of the quotient n / d: the nearest integer, a tie going up
MathRound(n, d) == FloorDiv(2 * n + d, 2 * d)

\* lines 151-153 and 155-157:
\* limit ? Math.min(100, Math.round((count / limit) * 100)) : 0
percent(count, limit) ==
    IF truthy(limit)
    THEN LET rounded == MathRound(count * 100, limit[1])
         IN  IF rounded < 100 THEN rounded ELSE 100
    ELSE 0

\* lines 146-157, 244, 278-297: what a render of the loaded page computes and
\* shows; the plan card needs !needsSubscription, each bar a truthy limit
render(d) ==
    LET usage == d.usage
        card == ~d.needs_subscription
    IN  [card |-> card,
         vectorValue |-> IF card
                         THEN formatVectorLimit(usage.total_vectors, usage.vector_limit)
                         ELSE <<"", "">>,
         vectorPercent |-> percent(usage.total_vectors, usage.vector_limit),
         projectPercent |-> percent(usage.project_count, usage.project_limit),
         vectorBar |-> card /\ truthy(usage.vector_limit),
         projectBar |-> card /\ truthy(usage.project_limit)]

\* lines 32-43, 51, 128-130: the route has loaded the projects query and the
\* page renders its data
ProjectsOpen(D) ==
    /\ pPage = "closed"
    /\ pPage' = "loaded"
    /\ \E d \in D : data' = d /\ view' = render(d)
    /\ UNCHANGED <<showCreate, formState, creates, nCreates, topUpCall,
                   topUpPending, lastToast>>
    /\ UNCHANGED <<themeVars, toggleVars, verifyVars, resetVars>>

\* lines 44-46: a failed load redirects to /auth/login
ProjectsOpenFails ==
    /\ pPage = "closed"
    /\ pPage' = "login"
    /\ UNCHANGED <<data, view, showCreate, formState, creates, nCreates,
                   topUpCall, topUpPending, lastToast>>
    /\ UNCHANGED <<themeVars, toggleVars, verifyVars, resetVars>>

\* line 51: the query is refetched and the page renders the new data
ProjectsRefetch(D) ==
    /\ pPage = "loaded"
    /\ \E d \in D \ {data} : data' = d /\ view' = render(d)
    /\ UNCHANGED <<pPage, showCreate, formState, creates, nCreates, topUpCall,
                   topUpPending, lastToast>>
    /\ UNCHANGED <<themeVars, toggleVars, verifyVars, resetVars>>

NextUsage ==
    \/ ProjectsOpen(DataValues(UsageValues))
    \/ ProjectsOpenFails
    \/ ProjectsRefetch(DataValues(UsageValues))

\* The pages run in a browser; the theme is left alone.
InitProjects == InitVerify

SpecUsage == InitProjects /\ [][NextUsage]_vars

----------------------------------------------------------------------------
(* The projects page: the New Project dialog *)

\* line 211: disabled={!formState.name || createProject.isPending ||
\* data?.needs_subscription}
createDisabled(form, pending, d) ==
    form.name = "" \/ pending \/ d.needs_subscription

\* line 98: if (data?.needs_subscription)
createBlocked(d) == d.needs_subscription

\* lines 104-105 with the form left as typed
afterCreateSuccess_KeepForm(show, form) == <<FALSE, form>>

\* lines 104-105: setShowCreate(false); setFormState({ name: '', description: '' })
afterCreateSuccess(show, form) == <<FALSE, EmptyForm>>

\* line 113: err?.message || 'Failed to create project'
createErrorToast(o) ==
    IF o = "error_message" THEN "Project limit reached" ELSE "Failed to create project"

\* createProject.isPending
createPending == \E r \in 1..MaxCreates : creates[r].state = "pending"

\* A refetch that changes nothing but needs_subscription.
SubscriptionValues == {[data EXCEPT !.needs_subscription = b] : b \in BOOLEAN}

\* lines 170-175: the dialog trigger, disabled while a subscription is needed
OpenCreateDialog ==
    /\ pPage = "loaded"
    /\ ~showCreate
    /\ ~data.needs_subscription
    /\ showCreate' = TRUE
    /\ UNCHANGED <<pPage, data, view, formState, creates, nCreates, topUpCall,
                   topUpPending, lastToast>>
    /\ UNCHANGED <<themeVars, toggleVars, verifyVars, resetVars>>

\* lines 170, 203-208: Cancel, Escape or a click outside closes the dialog
CloseCreateDialog ==
    /\ pPage = "loaded"
    /\ showCreate
    /\ showCreate' = FALSE
    /\ UNCHANGED <<pPage, data, view, formState, creates, nCreates, topUpCall,
                   topUpPending, lastToast>>
    /\ UNCHANGED <<themeVars, toggleVars, verifyVars, resetVars>>

\* lines 183-199: typing into the name or the description field
EditCreateForm ==
    /\ pPage = "loaded"
    /\ showCreate
    /\ \/ \E n \in Names \ {formState.name} :
             formState' = [formState EXCEPT !.name = n]
       \/ \E d \in Descriptions \ {formState.description} :
             formState' = [formState EXCEPT !.description = d]
    /\ UNCHANGED <<pPage, data, view, showCreate, creates, nCreates, topUpCall,
                   topUpPending, lastToast>>
    /\ UNCHANGED <<themeVars, toggleVars, verifyVars, resetVars>>

\* lines 97-102, 209-214: a click on Create runs handleCreateProject up to
\* its await
CreateButtonClick ==
    /\ pPage = "loaded"
    /\ showCreate
    /\ ~createDisabled(formState, createPending, data)
    /\ nCreates < MaxCreates
    /\ IF createBlocked(data)
       THEN /\ lastToast' = "Start a subscription to create projects."
            /\ UNCHANGED <<creates, nCreates>>
       ELSE /\ creates' = [creates EXCEPT ![nCreates + 1] =
                              [NoCreate EXCEPT !.state = "pending",
                                               !.payload = formState]]
            /\ nCreates' = nCreates + 1
            /\ UNCHANGED lastToast
    /\ UNCHANGED <<pPage, data, view, showCreate, formState, topUpCall,
                   topUpPending>>
    /\ UNCHANGED <<themeVars, toggleVars, verifyVars, resetVars>>

\* lines 103-107, 112-114: the mutation settles and the handler continues to
\* its next await or its end; state updates of a page that was left are dropped
CreateSettled ==
    /\ pPage \in {"loaded", "left"}
    /\ \E r \in 1..MaxCreates, o \in CreateOutcomes :
          /\ creates[r].state = "pending"
          /\ IF o = "ok"
             THEN /\ creates' = [creates EXCEPT ![r] =
                                    [@ EXCEPT !.state = "clipboard", !.outcome = o]]
                  /\ IF pPage = "loaded"
                     THEN /\ showCreate' = afterCreateSuccess(showCreate, formState)[1]
                          /\ formState' = afterCreateSuccess(showCreate, formState)[2]
                     ELSE UNCHANGED <<showCreate, formState>>
                  /\ lastToast' = "Project created. API key copied to clipboard."
             ELSE /\ creates' = [creates EXCEPT ![r] =
                                    [@ EXCEPT !.state = "done", !.outcome = o]]
                  /\ lastToast' = createErrorToast(o)
                  /\ UNCHANGED <<showCreate, formState>>
    /\ UNCHANGED <<pPage, data, view, nCreates, topUpCall, topUpPending>>
    /\ UNCHANGED <<themeVars, toggleVars, verifyVars, resetVars>>

\* lines 107-111: the clipboard write settles (or navigator.clipboard is
\* missing and the call throws at once); a failure shows the key in a toast
ClipboardSettled ==
    /\ pPage \in {"loaded", "left"}
    /\ \E r \in 1..MaxCreates, c \in {"ok", "fail"} :
          /\ creates[r].state = "clipboard"
          /\ creates' = [creates EXCEPT ![r] =
                            [@ EXCEPT !.state = "done", !.clipboard = c]]
          /\ lastToast' = IF c = "fail" THEN "API Key" ELSE lastToast
    /\ UNCHANGED <<pPage, data, view, showCreate, formState, nCreates,
                   topUpCall, topUpPending>>
    /\ UNCHANGED <<themeVars, toggleVars, verifyVars, resetVars>>

\* lines 220, 233-237: the View Pricing link of the subscription card
ProjectsLeave ==
    /\ pPage = "loaded"
    /\ data.needs_subscription
    /\ pPage' = "left"
    /\ UNCHANGED <<data, view, showCreate, formState, creates, nCreates,
                   topUpCall, topUpPending, lastToast>>
    /\ UNCHANGED <<themeVars, toggleVars, verifyVars, resetVars>>

NextCreate ==
    \/ ProjectsOpen(DataValues({NoData.usage}))
    \/ ProjectsOpenFails
    \/ ProjectsRefetch(SubscriptionValues)
    \/ OpenCreateDialog
    \/ CloseCreateDialog
    \/ EditCreateForm
    \/ CreateButtonClick
    \/ CreateSettled
    \/ ClipboardSettled
    \/ ProjectsLeave

SpecCreate == InitProjects /\ [][NextCreate]_vars

----------------------------------------------------------------------------
(* The projects page: the vector top-up prompt *)

\* line 118: !value, for null and for the empty string
promptFalsy(v) == v.null \/ v.text = <<>>

\* Index of the first element of s outside the set C, Len(s) + 1 if none.
firstOutside(s, C) ==
    IF \A i \in 1..Len(s) : s[i] \in C
    THEN Len(s) + 1
    ELSE CHOOSE i \in 1..Len(s) :
             s[i] \notin C /\ \A j \in 1..(i - 1) : s[j] \in C

\* Number.parseInt, step 2: leading white space is skipped
trimStart(s) == SubSeq(s, firstOutside(s, {" "}), Len(s))

\* Number.parseInt, radix 10: the longest prefix of decimal digits
digitPrefix(s) == SubSeq(s, 1, firstOutside(s, Digits) - 1)

dropZeros(ds) == SubSeq(ds, firstOutside(ds, {"0"}), Len(ds))

digitValue(c) ==
    CASE c = "0" -> 0 [] c = "1" -> 1 [] c = "2" -> 2 [] c = "3" -> 3
      [] c = "4" -> 4 [] c = "5" -> 5 [] c = "6" -> 6 [] c = "7" -> 7
      [] c = "8" -> 8 [] OTHER -> 9

RECURSIVE decimalValue(_)
decimalValue(ds) ==
    IF ds = <<>>
    THEN 0
    ELSE 10 * decimalValue(SubSeq(ds, 1, Len(ds) - 1)) + digitValue(ds[Len(ds)])

\* The number a digit string denotes as a double: exact up to nine digits,
\* Infinity beyond Number.MAX_VALUE, a large finite integer in between. (A
\* string of exactly MaxDoubleDigits digits that starts with 1 is compared
\* with Number.MAX_VALUE digit by digit by the engine; none is drawn and it
\* is taken as finite.)
toNumber(ds, sign) ==
    LET sig == dropZeros(ds)
    IN  IF Len(sig) <= 9 THEN Num("int", sign, decimalValue(sig))
        ELSE IF Len(sig) > MaxDoubleDigits
                \/ (Len(sig) = MaxDoubleDigits /\ sig[1] # "1")
             THEN Num("inf", sign, 0)
             ELSE Num("big", sign, 0)

\* line 119: Number.parseInt(value, 10)
parseInt(text) ==
    LET t == trimStart(text)
        sign == IF t # <<>> /\ Head(t) = "-" THEN -1 ELSE 1
        body == IF t # <<>> /\ Head(t) \in {"+", "-"} THEN Tail(t) ELSE t
        ds == digitPrefix(body)
    IN  IF ds = <<>> THEN NaN ELSE toNumber(ds, sign)

\* line 120: Number.isNaN(quantity)
isNaN(q) == q.kind = "nan"

\* line 120: quantity <= 0 (false for NaN)
leqZero(q) ==
    CASE q.kind = "nan" -> FALSE
      [] q.kind = "int" -> q.sign * q.val <= 0
      [] OTHER          -> q.sign < 0

\* lines 117-126, 260-264: a click on Buy Vector Top-Up runs handleTopUpClick
\* with whatever the prompt returns
TopUpClick ==
    /\ pPage = "loaded"
    /\ view.card /\ data.allow_topups
    /\ ~topUpPending
    /\ \E v \in PromptResults :
          LET quantity == parseInt(v.text)
              call_ == [NoTopUp EXCEPT !.ran = TRUE, !.value = v]
          IN  IF promptFalsy(v)
              THEN /\ topUpCall' = call_
                   /\ UNCHANGED <<topUpPending, lastToast>>
              ELSE IF isNaN(quantity) \/ leqZero(quantity)
              THEN /\ topUpCall' = [call_ EXCEPT !.quantity = quantity,
                                                 !.toasted = TRUE]
                   /\ lastToast' = "Enter a positive integer quantity"
                   /\ UNCHANGED topUpPending
              ELSE /\ topUpCall' = [call_ EXCEPT !.quantity = quantity,
                                                 !.mutated = TRUE]
                   /\ topUpPending' = TRUE
                   /\ UNCHANGED lastToast
    /\ UNCHANGED <<pPage, data, view, showCreate, formState, creates, nCreates>>
    /\ UNCHANGED <<themeVars, toggleVars, verifyVars, resetVars>>

\* lines 70-79: the top-up mutation settles; success leaves for the checkout
TopUpSettled ==
    /\ pPage = "loaded"
    /\ topUpPending
    /\ topUpPending' = FALSE
    /\ \/ /\ lastToast' = "Redirecting to Polar Checkout..."
          /\ pPage' = "checkout"
       \/ /\ lastToast' = "Unable to purchase top-up"
          /\ pPage' = pPage
    /\ UNCHANGED <<data, view, showCreate, formState, creates, nCreates, topUpCall>>
    /\ UNCHANGED <<themeVars, toggleVars, verifyVars, resetVars>>

NextTopUp ==
    \/ ProjectsOpen(DataValues({NoData.usage}))
    \/ ProjectsOpenFails
    \/ ProjectsRefetch(DataValues({NoData.usage}))
    \/ TopUpClick
    \/ TopUpSettled

SpecTopUp == InitProjects /\ [][NextTopUp]_vars

----------------------------------------------------------------------------
(* The password-reset page *)

\* lines 12-16: null without a window, else params.get('token')
useQueryToken(win, search) == IF ~win THEN NULL ELSE search

\* line 63 testing for null only
resetFormFor_NullOnly(token) == IF token = NULL THEN "request" ELSE "confirm"

\* lines 57, 63: !token shows the request form, a truthy token the confirm form
resetFormFor(token) ==
    IF token = NULL \/ token = "" THEN "request" ELSE "confirm"

\* line 71: the email is required
requestValid(email) == email # ""

\* lines 94-97, 110-113: the password is required and at least 8 characters
\* long, the confirmation is required and equal to it
confirmValid(new_password, confirm_password) ==
    /\ new_password # "" /\ Len(new_password) >= 8
    /\ confirm_password # "" /\ confirm_password = new_password

\* formState.isSubmitting of the mounted page's form
isSubmitting ==
    \E r \in 1..MaxResetCalls :
        resetCalls[r].state = "pending" /\ resetCalls[r].live

\* The mounted page goes away: the form of its pending submissions with it.
Unmounted(calls) == [r \in 1..MaxResetCalls |-> [calls[r] EXCEPT !.live = FALSE]]

\* lines 18-20, 57, 63: a render reads the token and picks the form
ResetRender(search) ==
    /\ rSearch' = search
    /\ rToken' = useQueryToken(hasWindow, search)
    /\ rForm' = resetFormFor(useQueryToken(hasWindow, search))

\* lines 8-10, 18-20: the route is entered (again)
ResetOpen ==
    /\ rPage \in {"unmounted", "login"}
    /\ rPage' = "mounted"
    /\ \E t \in Tokens : ResetRender(t)
    /\ UNCHANGED <<resetCalls, nResetCalls, rNavigatedBy>>
    /\ UNCHANGED <<themeVars, toggleVars, verifyVars, projectsVars>>

\* lines 14-15, 20: the search string changes and the page renders again
ResetUrlChange ==
    /\ rPage = "mounted"
    /\ hasWindow
    /\ \E t \in Tokens \ {rSearch} : ResetRender(t)
    /\ UNCHANGED <<rPage, resetCalls, nResetCalls, rNavigatedBy>>
    /\ UNCHANGED <<themeVars, toggleVars, verifyVars, projectsVars>>

\* The handler of the shown form starts a call of the API with the token of
\* the render.
ResetSubmit(api) ==
    /\ nResetCalls < MaxResetCalls
    /\ nResetCalls' = nResetCalls + 1
    /\ resetCalls' = [resetCalls EXCEPT ![nResetCalls + 1] =
                         [NoResetCall EXCEPT !.state = "pending", !.api = api,
                                             !.token = rToken, !.live = TRUE]]
    /\ UNCHANGED <<rPage, rSearch, rToken, rForm, rNavigatedBy>>
    /\ UNCHANGED <<themeVars, toggleVars, verifyVars, projectsVars>>

\* lines 25-27, 64-85: a valid request form is submitted
ResetSubmitRequest ==
    /\ rPage = "mounted" /\ hasWindow
    /\ rForm = "request"
    /\ ~isSubmitting
    /\ \E email \in Emails : requestValid(email)
    /\ ResetSubmit("resetRequest")

\* lines 36-38, 87-125: a valid confirm form is submitted
ResetSubmitConfirm ==
    /\ rPage = "mounted" /\ hasWindow
    /\ rForm = "confirm"
    /\ ~isSubmitting
    /\ \E new_password \in Passwords, confirm_password \in Passwords :
          confirmValid(new_password, confirm_password)
    /\ ResetSubmit("resetConfirm")

\* lines 28-29, 39-40: the success toast of the handler
resetSuccessToast(api) ==
    IF api = "resetRequest"
    THEN "If an account exists, a reset email has been sent."
    ELSE "Password has been reset. Please sign in."

\* lines 32, 43: err?.message || the handler's default
resetErrorToast(api) ==
    IF api = "resetRequest"
    THEN "Failed to send reset email"
    ELSE "Failed to reset password"

\* lines 27-33, 38-44: the call settles; success toasts and navigates to
\* /auth/login, failure logs and toasts
ResetCallSettled ==
    /\ \E r \in 1..MaxResetCalls, o \in {"ok", "error"} :
          /\ resetCalls[r].state = "pending"
          /\ IF o = "ok"
             THEN /\ resetCalls' =
                        [Unmounted(resetCalls) EXCEPT ![r] =
                            [@ EXCEPT !.state = "done", !.outcome = o,
                                      !.toast = resetSuccessToast(resetCalls[r].api),
                                      !.navigated = TRUE]]
                  /\ rPage' = "login"
                  /\ rNavigatedBy' = "call"
             ELSE /\ resetCalls' =
                        [resetCalls EXCEPT ![r] =
                            [@ EXCEPT !.state = "done", !.outcome = o,
                                      !.live = FALSE,
                                      !.toast = resetErrorToast(resetCalls[r].api)]]
                  /\ UNCHANGED <<rPage, rNavigatedBy>>
    /\ UNCHANGED <<rSearch, rToken, rForm, nResetCalls>>
    /\ UNCHANGED <<themeVars, toggleVars, verifyVars, projectsVars>>

\* lines 131-139: the BACK TO SIGN IN link
ResetBackToSignIn ==
    /\ rPage = "mounted" /\ hasWindow
    /\ rPage' = "login"
    /\ rNavigatedBy' = "link"
    /\ resetCalls' = Unmounted(resetCalls)
    /\ UNCHANGED <<rSearch, rToken, rForm, nResetCalls>>
    /\ UNCHANGED <<themeVars, toggleVars, verifyVars, projectsVars>>

NextReset ==
    \/ ResetOpen
    \/ ResetUrlChange
    \/ ResetSubmitRequest
    \/ ResetSubmitConfirm
    \/ ResetCallSettled
    \/ ResetBackToSignIn

\* The page is rendered with or without a window; the theme is left alone.
InitReset ==
    /\ Init
    /\ hasDocument = hasWindow
    /\ storageStatus = "ok" /\ localStorage = <<>>
    /\ ~prefersDark /\ ~htmlDark /\ ~bodyDark

SpecReset == InitReset /\ [][NextReset]_vars

\* The library with all five exports called directly, applyTheme included.
NextLib ==
    \/ Next
    \/ Lib(CallApplyTheme)

SpecLib == Init /\ [][NextLib]_vars

----------------------------------------------------------------------------
(* Vocabulary of the properties *)

\* The Applied Theme State reflects mode m (where a document exists).
Applied(m) ==
    hasDocument => (htmlDark = (m = "dark") /\ bodyDark = (m = "dark"))

\* The last call was op and it is over, by return or by exception.
Finished(op) == pc = "done" /\ call.op = op

\* The last call was op and it returned normally.
Returned(op) == Finished(op) /\ ~call.threw

\* What the store held under the key when the call started.
StoredBefore == getItem(call.storeBefore, THEME_STORAGE_KEY)

StoredNow == getItem(localStorage, THEME_STORAGE_KEY)

\* The system signal as the call saw it.
SignalBefore == IF hasWindow /\ call.prefersBefore THEN "dark" ELSE "light"

Browser == hasWindow /\ hasDocument

----------------------------------------------------------------------------
(* C1 - C10 *)

\* C1: every finished initTheme call has returned a concrete mode ('light' or
\* 'dark') and the Applied Theme State matches the returned mode, whatever
\* the storage state and the environment. Violated: with a window whose
\* storage access throws, getStoredTheme's exception leaves initTheme.
C1_InitThemeAlwaysReturnsApplied ==
    Finished("initTheme") =>
        /\ ~call.threw
        /\ call.ret \in ThemeMode
        /\ Applied(call.ret)

\* C2 (as claimed): after a returned initTheme, and after every returned
\* setTheme that follows it, both root targets carry the dark marker iff the
\* value stored under the key is 'dark'.
C2_AppliedIffStoredDark ==
    (Browser /\ initRan /\ (Returned("initTheme") \/ Returned("setTheme"))) =>
        ((htmlDark /\ bodyDark) <=> (StoredNow = "dark"))

\* C2 (amended): after a returned initTheme, and after every returned setTheme
\* that follows it, the applied state agrees with the store whenever the
\* store holds a valid encoding; the store lacks one only after an initTheme
\* whose write failed and was swallowed, and then the applied state is the
\* mode initTheme returned and the store is as it was before the call.
C2_AppliedAgreesWithValidStore ==
    (Browser /\ initRan /\ (Returned("initTheme") \/ Returned("setTheme"))) =>
        IF StoredNow \in ThemeMode
        THEN /\ htmlDark = (StoredNow = "dark")
             /\ bodyDark = (StoredNow = "dark")
        ELSE /\ call.op = "initTheme"
             /\ call.writeFailed
             /\ Applied(call.ret)
             /\ localStorage = call.storeBefore

C2_Witness ==
    /\ Browser /\ initRan /\ Returned("setTheme")
    /\ call.arg = "dark" /\ StoredBefore = "light" /\ StoredNow = "dark"
    /\ call.markersBefore = <<FALSE, FALSE>>
    /\ htmlDark /\ bodyDark

\* C3: no theme operation leaves by exception. Violated: getStoredTheme (and
\* initTheme through it) when the storage read throws, setTheme when the
\* storage write throws.
C3_NoOperationThrows == ~call.threw

\* C4: when the store holds a valid encoding at the start of initTheme, the
\* call never writes the store (it is unchanged at every step) and, when it
\* returns, it returns the stored mode whatever the system signal reports.
C4_StoredPreferenceWins ==
    (call.op = "initTheme" /\ hasWindow /\ StoredBefore \in ThemeMode) =>
        /\ localStorage = call.storeBefore
        /\ ~call.wrote /\ ~call.writeFailed
        /\ Returned("initTheme") => call.ret = StoredBefore

C4_Witness ==
    /\ Returned("initTheme") /\ Browser
    /\ StoredBefore = "dark" /\ ~call.prefersBefore
    /\ call.ret = "dark" /\ StoredNow = "dark"

\* C5: when the key is missing or holds a string other than 'light'/'dark'
\* (or there is no window), a returned initTheme has returned the system
\* preference, has applied it, and, if storage is writable, the store now
\* holds the returned mode.
C5_AbsentFallsBackToSystem ==
    (Returned("initTheme") /\ (~hasWindow \/ StoredBefore \notin ThemeMode)) =>
        /\ call.ret = SignalBefore
        /\ Applied(call.ret)
        /\ (hasWindow /\ call.statusBefore = "ok") => StoredNow = call.ret

C5_Witness ==
    /\ Returned("initTheme") /\ Browser
    /\ StoredBefore = "purple" /\ call.prefersBefore /\ call.statusBefore = "ok"
    /\ call.ret = "dark" /\ StoredNow = "dark"
    /\ call.markersBefore = <<FALSE, FALSE>> /\ htmlDark /\ bodyDark

\* C6: after setTheme(m) returns (window and document present) the dark
\* marker reflects m and the store reads back m; every later initTheme that
\* returns, in the same or a fresh page lifecycle, returns the mode of the
\* last such setTheme, whatever the system signal.
C6_SetThenInitRoundTrip ==
    /\ (Browser /\ Returned("setTheme")) =>
          (Applied(call.arg) /\ StoredNow = call.arg /\ lastSet = call.arg)
    /\ (Returned("initTheme") /\ lastSet # NULL) => call.ret = lastSet

C6_Witness ==
    /\ Returned("initTheme") /\ Browser
    /\ reloadedSinceSet /\ lastSet = "dark"
    /\ ~call.prefersBefore
    /\ call.ret = "dark"

\* C7: getStoredTheme returns 'light' or 'dark' exactly when the stored value
\* is exactly that string, and null when the key is missing, holds any other
\* string ('Dark', 'purple', ''), or there is no window; in each of these
\* cases it returns. (A throwing storage read is the subject of C3.) The same
\* holds of the value initTheme reads at line 34.
C7_Expected ==
    IF hasWindow
       /\ THEME_STORAGE_KEY \in DOMAIN call.storeBefore
       /\ call.storeBefore[THEME_STORAGE_KEY] \in {"light", "dark"}
    THEN call.storeBefore[THEME_STORAGE_KEY]
    ELSE NULL

C8_InitWriteFailureSwallowed ==
    (Finished("initTheme")
       /\ \/ ~hasWindow
          \/ (call.statusBefore = "quota" /\ StoredBefore \notin ThemeMode)) =>
        /\ ~call.threw
        /\ call.writeFailed
        /\ call.ret = SignalBefore
        /\ Applied(call.ret)
        /\ localStorage = call.storeBefore

C8_Witness ==
    /\ Finished("initTheme") /\ Browser
    /\ call.statusBefore = "quota" /\ StoredBefore = "purple" /\ call.prefersBefore
    /\ call.ret = "dark" /\ htmlDark /\ bodyDark
    /\ call.markersBefore = <<FALSE, FALSE>>
    /\ StoredNow = "purple"

\* C9: in setTheme(m) the visual state is updated before the store is
\* written: in every state in which this call has written the store the
\* applied state already reflects m, and between the two steps, as after a
\* failed write, the applied state reflects m while the store holds its
\* prior value.
C9_ApplyBeforePersist ==
    (call.op = "setTheme" /\ hasWindow) =>
        /\ call.wrote => (Applied(call.arg) /\ StoredNow = call.arg)
        /\ pc = "setTheme_s2" =>
              (Applied(call.arg) /\ localStorage = call.storeBefore)
        /\ (pc = "done" /\ call.threw) =>
              (Applied(call.arg) /\ localStorage = call.storeBefore)

C9_Witness ==
    /\ Finished("setTheme") /\ Browser /\ call.threw
    /\ call.arg = "dark" /\ StoredBefore = "light" /\ StoredNow = "light"
    /\ call.markersBefore = <<FALSE, FALSE>> /\ htmlDark /\ bodyDark

----------------------------------------------------------------------------
(* C11 - C20 *)

\* C11: once the store holds a valid encoding it is never deleted and never
\* changed except by a setTheme call, to that call's argument; and initTheme
\* attempts a store write only when no valid preference was readable.
C11_ValidStoreOnlySetThemeChanges ==
    /\ []((call.op = "initTheme" /\ (call.wrote \/ call.writeFailed))
             => StoredBefore \notin ThemeMode)
    /\ [][(StoredNow \in ThemeMode) =>
             (StoredNow' \in ThemeMode
              /\ (StoredNow' # StoredNow =>
                    (call.op = "setTheme" /\ StoredNow' = call.arg)))]_vars

C11_Witness ==
    /\ Returned("initTheme") /\ hasWindow
    /\ lastSet = "dark" /\ StoredBefore = "dark" /\ StoredNow = "dark"
    /\ call.prefersBefore = FALSE
    /\ ~call.wrote /\ ~call.writeFailed

\* C16: detectPreferredTheme returns 'dark' if and only if a window is present
\* and its prefers-color-scheme: dark signal is true, and 'light' otherwise.
C16_DetectPreferredTheme ==
    Finished("detectPreferredTheme") =>
        /\ ~call.threw
        /\ call.ret \in ThemeMode
        /\ call.ret = "dark" <=> (hasWindow /\ call.prefersBefore)

C16_Witness ==
    /\ Finished("detectPreferredTheme")
    /\ hasWindow /\ call.prefersBefore
    /\ call.ret = "dark"

\* C13: with a document, after applyTheme(m) both root targets carry the
\* 'dark' marker if and only if m is 'dark', whatever they carried before;
\* in particular the two markers are equal.
C13_ApplyThemeSetsBothTargets ==
    (Finished("applyTheme") /\ hasDocument) =>
        /\ htmlDark = (call.arg = "dark")
        /\ bodyDark = (call.arg = "dark")
        /\ htmlDark = bodyDark

C13_Witness ==
    /\ Finished("applyTheme") /\ hasDocument
    /\ call.markersBefore = <<TRUE, FALSE>>
    /\ call.arg = "light"
    /\ ~htmlDark /\ ~bodyDark

\* C14: applyTheme(m) directly after applyTheme(m) leaves the state the first
\* call produced, and applyTheme('light') directly after applyTheme('dark')
\* leaves both root targets without the 'dark' marker.
C14_ApplyThemeIdempotentRoundTrip ==
    (Finished("applyTheme") /\ call.prevOp = "applyTheme") =>
        /\ call.prevArg = call.arg =>
              (Markers = call.markersBefore /\ localStorage = call.storeBefore)
        /\ (call.prevArg = "dark" /\ call.arg = "light") =>
              (~htmlDark /\ ~bodyDark)

C14_Witness ==
    /\ Finished("applyTheme") /\ hasDocument
    /\ call.prevOp = "applyTheme" /\ call.prevArg = "dark" /\ call.arg = "dark"
    /\ htmlDark /\ bodyDark
    /\ call.markersBefore = <<TRUE, TRUE>>

\* C15 (as claimed): with window absent setTheme changes neither the store nor
\* the applied state; with document absent applyTheme changes nothing; and
\* setTheme writes the store in no state where the document is missing.
C15_NoOpWithoutEnvironment ==
    /\ (call.op = "setTheme" /\ ~hasWindow) =>
          (localStorage = call.storeBefore /\ Markers = call.markersBefore)
    /\ (Finished("applyTheme") /\ ~hasDocument) =>
          (localStorage = call.storeBefore /\ Markers = call.markersBefore)
    /\ (call.op = "setTheme" /\ ~hasDocument) => ~call.wrote

\* C15 (amended): with window absent setTheme changes neither the store nor
\* the applied state; with document absent applyTheme changes nothing; and
\* setTheme writes the store only when a window exists, whether or not a
\* document does: with a window and no document a returned setTheme(m) has
\* written m and left the markers alone.
C15_NoOpWithoutWindow ==
    /\ (call.op = "setTheme" /\ ~hasWindow) =>
          (localStorage = call.storeBefore /\ Markers = call.markersBefore
           /\ ~call.wrote /\ ~call.threw)
    /\ (Finished("applyTheme") /\ ~hasDocument) =>
          (localStorage = call.storeBefore /\ Markers = call.markersBefore)
    /\ (Returned("setTheme") /\ hasWindow /\ ~hasDocument) =>
          (call.wrote /\ StoredNow = call.arg /\ Markers = call.markersBefore)

C15_Witness ==
    /\ Finished("setTheme") /\ ~hasWindow /\ hasDocument
    /\ call.arg = "dark"
    /\ ~htmlDark /\ ~bodyDark
    /\ localStorage = call.storeBefore

\* C17: a call of applyTheme, getStoredTheme or detectPreferredTheme (also
\* the getStoredTheme call inside initTheme) leaves the store unchanged, and
\* getStoredTheme and detectPreferredTheme leave the applied state unchanged.
C17_ReadersLeaveStoreAlone ==
    [][/\ (call' # call
           /\ call'.op \in {"applyTheme", "getStoredTheme", "detectPreferredTheme"})
          => (localStorage' = localStorage
              /\ (call'.op # "applyTheme" => Markers' = Markers))
       /\ (pc = "initTheme_34" /\ pc' # "idle")
          => (localStorage' = localStorage /\ Markers' = Markers)]_vars

C17_Witness ==
    /\ Finished("applyTheme") /\ Browser
    /\ call.arg = "dark" /\ call.markersBefore = <<FALSE, FALSE>>
    /\ htmlDark /\ bodyDark
    /\ StoredNow = "light"

\* C12: initTheme is invoked exactly once per page lifecycle, before every
\* setTheme call of a toggle, however many ThemeToggle components mount.
\* Violated: every mount runs the effect of lines 9-12, so a second mounted
\* or re-mounted ThemeToggle invokes initTheme again.
C12_InitThemeExactlyOnce ==
    /\ initCalls <= 1
    /\ (\E i \in Toggles : mounted[i]) => initCalls = 1
    /\ call.op = "setTheme" => initCalls >= 1

\* C18: whenever no call is running, every mounted ThemeToggle whose mount
\* effect has run holds the applied mode in its state. Stated here for the
\* healthy page only (window and document present, no exception so far).
\* Violated with two instances: a click on one leaves the other's state stale.
C18_ToggleModeIsAppliedMode ==
    (Idle /\ Browser /\ ~faulted) =>
        \A i \in Toggles :
            (mounted[i] /\ effectDone[i]) =>
                (htmlDark = (mode[i] = "dark") /\ bodyDark = (mode[i] = "dark"))

\* C19: on the mounted verify-email page success and error are never both
\* set, and once a run has finished exactly one of the verifying, verified
\* and failed panels is shown. Violated: no run clears what an earlier run
\* set, so a failed (or token-less) run followed by a successful one shows
\* both the failed and the verified panel.
C19_StatusFlagsExclusive ==
    vPage = "mounted" =>
        /\ ~(success /\ error # NULL)
        /\ (\E r \in 1..MaxVerifyRuns : runs[r].state = "done") =>
              \/ (verifying /\ ~success /\ error = NULL)
              \/ (~verifying /\ success /\ error = NULL)
              \/ (~verifying /\ ~success /\ error # NULL)

\* C20: a verification request is sent only for a run whose token is present
\* and non-empty; a token-less run sends nothing and puts the page straight
\* into the error state; the redirect timer is scheduled only by a run whose
\* response had an ok status, and only such a timer redirects.
C20_RequestNeedsTokenRedirectNeedsOk ==
    /\ \A r \in 1..MaxVerifyRuns :
          /\ runs[r].sent => runs[r].token \notin {NULL, ""}
          /\ (runs[r].state # "unused" /\ runs[r].token \in {NULL, ""}) =>
                (~runs[r].sent /\ runs[r].state = "done"
                 /\ runs[r].outcome = NULL /\ ~runs[r].scheduled)
          /\ runs[r].scheduled => (runs[r].sent /\ runs[r].outcome = "ok")
          /\ runs[r].fired => runs[r].scheduled
    /\ autoRedirected =>
          \E r \in 1..MaxVerifyRuns : runs[r].outcome = "ok" /\ runs[r].fired
    /\ (vPage = "mounted" /\ nRuns = 1 /\ urlToken \in {NULL, ""}) =>
          (error = "No verification token provided" /\ ~verifying /\ ~success)

C20_Witness ==
    /\ autoRedirected /\ vPage = "login"
    /\ runs[1].outcome = "notok_detail" /\ ~runs[1].scheduled
    /\ runs[2].outcome = "ok" /\ runs[2].fired

----------------------------------------------------------------------------
\* C21: on the projects page the percentages handed to the two progress bars
\* are integers from 0 to 100 for every usage count and every limit (null, 0,
\* positive or negative), and the vector bar is shown only when
\* formatVectorLimit does not print 'Unlimited' for the same limit.
C21_PercentsInRangeBarOnlyWhenLimited ==
    pPage = "loaded" =>
        /\ view.vectorBar => view.vectorPercent \in 0..100
        /\ view.projectBar => view.projectPercent \in 0..100
        /\ view.vectorBar => view.vectorValue[2] # "Unlimited"

----------------------------------------------------------------------------
\* C22: handleCreateProject issues the create-project mutation only while the
\* loaded data does not report needs_subscription; the step at which the
\* mutation succeeds closes the dialog and empties the form, and the later
\* clipboard step, failed or not, leaves both alone; the step at which the
\* mutation fails leaves the dialog and the form as they were.
C22_CreateGuardedAndResetOnSuccessOnly ==
    [][\A r \in 1..MaxCreates :
          /\ (creates[r].state = "unused" /\ creates'[r].state = "pending")
                => (~data.needs_subscription /\ UNCHANGED <<showCreate, formState>>)
          /\ (creates[r].state = "pending" /\ creates'[r].state = "clipboard"
                /\ pPage = "loaded")
                => (creates'[r].outcome = "ok" /\ ~showCreate'
                      /\ formState' = EmptyForm)
          /\ (creates[r].state = "clipboard" /\ creates'[r].state = "done")
                => UNCHANGED <<showCreate, formState>>
          /\ (creates[r].state = "pending" /\ creates'[r].state = "done")
                => (creates'[r].outcome # "ok"
                      /\ UNCHANGED <<showCreate, formState>>)]_vars

\* A first mutation failed and left the dialog open with the typed form; a
\* second one, of the same form, succeeded, its clipboard write failed, and
\* the dialog is closed with an empty form.
C22_Witness ==
    /\ creates[1].state = "done" /\ creates[1].outcome = "error_nomessage"
    /\ creates[2].state = "done" /\ creates[2].outcome = "ok"
    /\ creates[2].clipboard = "fail"
    /\ creates[2].payload = [name |-> "docs", description |-> "notes"]
    /\ pPage = "loaded" /\ ~showCreate /\ formState = EmptyForm
    /\ lastToast = "API Key"

----------------------------------------------------------------------------
\* A positive integer among the numbers parseInt can return.
PositiveInteger(q) ==
    q.sign = 1 /\ (q.kind = "big" \/ (q.kind = "int" /\ q.val > 0))

\* C23: handleTopUpClick hands the top-up mutation only a quantity that is an
\* integer greater than 0; a cancelled or empty prompt issues no mutation and
\* shows no error; an input that does not parse to a positive integer issues
\* no mutation.
C23_TopUpOnlyWithPositiveInteger ==
    topUpCall.ran =>
        /\ topUpCall.mutated => PositiveInteger(topUpCall.quantity)
        /\ promptFalsy(topUpCall.value) => (~topUpCall.mutated /\ ~topUpCall.toasted)
        /\ ~PositiveInteger(parseInt(topUpCall.value.text)) => ~topUpCall.mutated

----------------------------------------------------------------------------
\* C24: on the reset page resetConfirm is never called with an absent or empty
\* token: the confirm form is shown only for a non-empty URL token and the
\* request form, with resetRequest, otherwise; and a handler has navigated to
\* /auth/login only after its own API call succeeded, never after a failure.
C24_ConfirmNeedsTokenNavigateNeedsSuccess ==
    /\ \A r \in 1..MaxResetCalls :
          /\ resetCalls[r].api = "resetConfirm"
                => (resetCalls[r].token # NULL /\ resetCalls[r].token # "")
          /\ resetCalls[r].api = "resetRequest"
                => (resetCalls[r].token = NULL \/ resetCalls[r].token = "")
          /\ resetCalls[r].navigated
                => (resetCalls[r].state = "done" /\ resetCalls[r].outcome = "ok")
          /\ resetCalls[r].outcome = "error" => ~resetCalls[r].navigated
    /\ rPage = "mounted"
          => (rForm = "confirm" <=> (hasWindow /\ rSearch # NULL /\ rSearch # ""))
    /\ rNavigatedBy = "call"
          => \E r \in 1..MaxResetCalls :
                resetCalls[r].navigated /\ resetCalls[r].outcome = "ok"

\* A confirm call with token t1 failed and the page stayed; the URL lost its
\* token, the request form was submitted, resetRequest succeeded and its
\* handler navigated to the login page.
C24_Witness ==
    /\ resetCalls[1].api = "resetConfirm" /\ resetCalls[1].token = "t1"
    /\ resetCalls[1].outcome = "error" /\ ~resetCalls[1].navigated
    /\ resetCalls[2].api = "resetRequest" /\ resetCalls[2].token = ""
    /\ resetCalls[2].outcome = "ok" /\ resetCalls[2].navigated
    /\ rPage = "login" /\ rNavigatedBy = "call"

====
